---- MODULE Spec2Model ----
(* Model of scripts/10_generate_manifests.py: the catalog loader            *)
(* (load_csv_data), the image resolver (find_image_file,                    *)
(* get_image_dimensions), the canvas builder (create_canvas), the manifest  *)
(* builder (create_multi_image_manifest) and the generation driver          *)
(* (generate_manifests).                                                    *)
(*                                                                          *)
(* Strings that the program takes apart or rewrites (category labels,       *)
(* manifest ids, file names) are sequences of one-character strings.        *)
(* Identifiers built by interpolation with "/" are sequences of their path  *)
(* segments.  An image file name f"{item_id}{ext}" is the pair              *)
(* <<item_id, ext>>.                                                        *)
EXTENDS Integers, Sequences, FiniteSets, TLC

(***************************************************************************)
(* Bounds of the model                                                     *)
(***************************************************************************)
\* longest catalog of the loader runs
MaxLoadRows == 3
\* longest item list handed to create_multi_image_manifest on its own
MaxIds == 3
\* largest --sample-size
MaxSample == 3
\* number of runs of the script on the same directories
MaxRuns == 2

\* longest label, other than the category labels, that is sanitized
MaxLabel == 4

(***************************************************************************)
(* Program constants                                                       *)
(***************************************************************************)
SAINT_CATEGORIES == <<
    <<"1","1","F","(","M","A","R","Y",")">>,
    <<"1","1","H","(","A","N","T","O","N","Y"," ","A","B","B","O","T",")">>,
    <<"1","1","H","(","A","N","T","O","N","Y"," ","O","F"," ","P","A","D","U","A",")">>,
    <<"1","1","H","(","A","U","G","U","S","T","I","N","E",")">>,
    <<"1","1","H","(","D","O","M","I","N","I","C",")">>,
    <<"1","1","H","(","F","R","A","N","C","I","S",")">>,
    <<"1","1","H","(","J","E","R","O","M","E",")">>,
    <<"1","1","H","(","J","O","H","N"," ","T","H","E"," ","B","A","P","T","I","S","T",")">>,
    <<"1","1","H","(","J","O","H","N",")">>,
    <<"1","1","H","(","J","O","S","E","P","H",")">>,
    <<"1","1","H","(","P","A","U","L",")">>,
    <<"1","1","H","(","P","E","T","E","R",")">>,
    <<"1","1","H","(","S","E","B","A","S","T","I","A","N",")">>,
    <<"1","1","H","(","S","T","E","P","H","E","N",")">>,
    <<"1","1","H","H","(","B","A","R","B","A","R","A",")">>,
    <<"1","1","H","H","(","C","A","T","H","E","R","I","N","E",")">>,
    <<"1","1","H","H","(","M","A","R","Y"," ","M","A","G","D","A","L","E","N","E",")">>
  >>

\* the position of a category in SAINT_CATEGORIES stands for the category
\* as dictionary key and as CSV column name
SaintIdx == 1..Len(SAINT_CATEGORIES)

\* the keys of set_data, in insertion order
SET_NAMES == <<"train", "test", "val">>

\* the characters of the string literals the program uses as manifest ids
Chars == [train  |-> <<"t","r","a","i","n">>,
          test   |-> <<"t","e","s","t">>,
          val    |-> <<"v","a","l">>,
          sample |-> <<"s","a","m","p","l","e">>]

JSON_SUFFIX == <<".","j","s","o","n">>

\* extensions of find_image_file, in probe order
EXTENSIONS == <<".jpg", ".jpeg", ".png", ".tif", ".tiff",
                ".JPG", ".JPEG", ".PNG", ".TIF", ".TIFF">>

\* image_extensions of generate_manifests
IMAGE_EXTENSIONS == {".jpg", ".jpeg", ".png", ".tif", ".tiff"}

\* str.lower() on the file suffixes that occur in the model
SuffixLower(ext) ==
    CASE ext \in {".jpg", ".JPG", ".Jpg"} -> ".jpg"
      [] ext \in {".jpeg", ".JPEG"}       -> ".jpeg"
      [] ext \in {".png", ".PNG"}         -> ".png"
      [] ext \in {".tif", ".TIF"}         -> ".tif"
      [] ext \in {".tiff", ".TIFF"}       -> ".tiff"
      [] OTHER                            -> ext

DEFAULT_DIMENSIONS == <<1000, 1000>>

BASE_URL == "http://localhost:8182"

(***************************************************************************)
(* Values of the environment                                               *)
(***************************************************************************)
Items == {"a", "b", "c", "d"}

NoFlags == << >>

\* a data row as csv.DictReader yields it: the cells of the columns `item`
\* and `set`, and the cells of the category columns the file has
Row(i, s, fl) == [item |-> i, set |-> s, flags |-> fl]

\* dict.get(key, default) on the category cells of a row
RowGet(row, saint, default) ==
    IF saint \in DOMAIN row.flags THEN row.flags[saint] ELSE default

\* an image file of the images directory: readable with its pixel size, or
\* not decodable
Readable(w, h) == [ok |-> TRUE, size |-> <<w, h>>]
Corrupt == [ok |-> FALSE, size |-> <<0, 0>>]

Min(x, y) == IF x < y THEN x ELSE y

Range(s) == {s[i] : i \in DOMAIN s}

SeqsUpTo(S, n) == UNION {[1..k -> S] : k \in 0..n}

VARIABLES
    \* environment
    csv_exists,        \* the catalog file exists
    fieldnames,        \* header of the catalog file
    catalog,           \* data rows of the catalog file
    images_dir_exists, \* the images directory exists
    dir,               \* images directory: file name -> content
    out_dir_exists,    \* the output directory exists
    files,             \* output directory: *.json file name -> manifest
    \* options of the current run, after lines 333-335
    generate_splits, generate_saints, force, sample_size,
    \* generate_manifests
    pc, split_i, saint_i, manifests_generated, saint_count,
    exit_status, stderr,
    \* load_csv_data
    row_i, set_data, saint_data, all_items,
    \* create_multi_image_manifest
    bpc, manifest_id, image_ids, item_i, manifest, canvas_index, skipped,
    output_path,
    \* history
    runs,              \* number of runs started
    files0,            \* output directory when the current run started
    written            \* file names written by the current run, in order

envVars   == <<csv_exists, fieldnames, catalog, images_dir_exists, dir>>
fsVars    == <<out_dir_exists, files>>
optVars   == <<generate_splits, generate_saints, force, sample_size>>
drvVars   == <<split_i, saint_i, manifests_generated, saint_count>>
exitVars  == <<exit_status, stderr>>
loadVars  == <<row_i, set_data, saint_data, all_items>>
buildVars == <<bpc, manifest_id, image_ids, item_i, manifest, canvas_index,
               skipped, output_path>>
histVars  == <<runs, files0>>

vars == <<envVars, fsVars, optVars, pc, drvVars, exitVars, loadVars,
          buildVars, histVars, written>>

(***************************************************************************)
(* Pure functions                                                          *)
(***************************************************************************)
\* str.replace(old, new) for a one-character old and a string new
RECURSIVE Replace(_, _, _)
Replace(s, old, new) ==
    IF s = << >> THEN << >>
    ELSE (IF Head(s) = old THEN new ELSE <<Head(s)>>)
         \o Replace(Tail(s), old, new)

\* variant: the label is cut at its opening parenthesis
RECURSIVE UpToParen(_)
UpToParen(s) ==
    IF s = << >> \/ Head(s) = "(" THEN << >>
    ELSE <<Head(s)>> \o UpToParen(Tail(s))

sanitize_filename_UpToParen(name) == UpToParen(name)

\* variant: the closing parenthesis is left in place
sanitize_filename_KeepClose(name) ==
    Replace(Replace(name, "(", <<"_">>), " ", <<"_">>)

sanitize_filename(name) ==
    Replace(Replace(Replace(name, "(", <<"_">>), ")", << >>), " ", <<"_">>)

\* the probe loop of find_image_file from extension k on; the result is
\* [found, file]
RECURSIVE Probe(_, _, _)
Probe(item_id, d, k) ==
    IF k > Len(EXTENSIONS) THEN [found |-> FALSE, file |-> <<item_id, "">>]
    ELSE IF <<item_id, EXTENSIONS[k]>> \in DOMAIN d
         THEN [found |-> TRUE, file |-> <<item_id, EXTENSIONS[k]>>]
         ELSE Probe(item_id, d, k + 1)

\* variant: the extensions are probed from the last to the first
RECURSIVE ProbeBack(_, _, _)
ProbeBack(item_id, d, k) ==
    IF k < 1 THEN [found |-> FALSE, file |-> <<item_id, "">>]
    ELSE IF <<item_id, EXTENSIONS[k]>> \in DOMAIN d
         THEN [found |-> TRUE, file |-> <<item_id, EXTENSIONS[k]>>]
         ELSE ProbeBack(item_id, d, k - 1)

find_image_file_LastMatch(item_id, d) == ProbeBack(item_id, d, Len(EXTENSIONS))

find_image_file(item_id, d) == Probe(item_id, d, 1)

\* variant: no fallback, the size read from the file is returned as it is
get_image_dimensions_NoFallback(image_path, d) == d[image_path].size

get_image_dimensions(image_path, d) ==
    IF d[image_path].ok THEN d[image_path].size ELSE DEFAULT_DIMENSIONS

\* variant: the AnnotationPage id is built without the manifest id
create_canvas_PageId(item_id, image_filename, base_url, width, height, index, mid) ==
    LET image_service_url == <<base_url, "iiif", "3", image_filename>>
    IN [id     |-> <<base_url, "collections", mid, "canvas", index>>,
        type   |-> "Canvas",
        label  |-> item_id,
        height |-> height,
        width  |-> width,
        page   |-> <<base_url, "collections", "page", index>>,
        annotation |-> <<base_url, "collections", mid, "annotation", index>>,
        body   |-> [id      |-> image_service_url
                                  \o <<"full", "max", "0", "default.jpg">>,
                    format  |-> "image/jpeg",
                    height  |-> height,
                    width   |-> width,
                    service |-> [id |-> image_service_url,
                                 type |-> "ImageService3",
                                 profile |-> "level2"]],
        target |-> <<base_url, "collections", mid, "canvas", index>>]

create_canvas(item_id, image_filename, base_url, width, height, index, mid) ==
    LET image_service_url == <<base_url, "iiif", "3", image_filename>>
    IN [id     |-> <<base_url, "collections", mid, "canvas", index>>,
        type   |-> "Canvas",
        label  |-> item_id,
        height |-> height,
        width  |-> width,
        page   |-> <<base_url, "collections", mid, "page", index>>,
        annotation |-> <<base_url, "collections", mid, "annotation", index>>,
        body   |-> [id      |-> image_service_url
                                  \o <<"full", "max", "0", "default.jpg">>,
                    format  |-> "image/jpeg",
                    height  |-> height,
                    width   |-> width,
                    service |-> [id |-> image_service_url,
                                 type |-> "ImageService3",
                                 profile |-> "level2"]],
        target |-> <<base_url, "collections", mid, "canvas", index>>]

\* the manifest dictionary of create_multi_image_manifest before the loop
NewManifest(mid, base_url) ==
    [id    |-> <<base_url, "collections", mid \o JSON_SUFFIX>>,
     type  |-> "Manifest",
     items |-> << >>]

\* os.path.join(output_dir, name + ".json"): the file name in the output
\* directory
OutputFile(stem) == stem \o JSON_SUFFIX

(***************************************************************************)
(* load_csv_data                                                           *)
(***************************************************************************)
EmptySetData == [train |-> << >>, test |-> << >>, val |-> << >>]

EmptySaintData == [k \in SaintIdx |-> << >>]

\* variant: a row with an unknown split value lands in the val bucket
LoadedSetData_UnknownToVal(sd, row) ==
    IF row.set \in DOMAIN sd
    THEN [sd EXCEPT ![row.set] = Append(@, row.item)]
    ELSE [sd EXCEPT !["val"] = Append(@, row.item)]

\* variant: every row with a known split value is also put in train
LoadedSetData_AlsoTrain(sd, row) ==
    IF row.set \in DOMAIN sd
    THEN IF row.set = "train"
         THEN [sd EXCEPT !["train"] = Append(@, row.item)]
         ELSE [sd EXCEPT ![row.set] = Append(@, row.item),
                         !["train"] = Append(@, row.item)]
    ELSE sd

\* the body of `for row in reader` for one row whose columns exist
LoadedSetData(sd, row) ==
    IF row.set \in DOMAIN sd
    THEN [sd EXCEPT ![row.set] = Append(@, row.item)]
    ELSE sd

LoadedSaintData(st, row) ==
    [k \in SaintIdx |->
        IF RowGet(row, k, "0") = "1" THEN Append(st[k], row.item) ELSE st[k]]

\* variant: the set column is looked up with row.get('set')
MissingColumn_SetOptional(header) ==
    IF "item" \notin header THEN "item" ELSE ""

\* the column whose lookup raises KeyError: row['item'] (line 231) is read
\* before row['set'] (line 232); "" when both columns exist
MissingColumn(header) ==
    IF "item" \notin header THEN "item"
    ELSE IF "set" \notin header THEN "set"
    ELSE ""

\* one iteration of the loop over the rows; a KeyError is not caught and
\* ends the program
LoadRow ==
    /\ pc = "load"
    /\ row_i <= Len(catalog)
    /\ LET row == catalog[row_i] IN
       \/ /\ MissingColumn(fieldnames) # ""
          /\ pc' = "exit"
          /\ exit_status' = 1
          /\ stderr' = stderr \cup {"KeyError"}
          /\ UNCHANGED loadVars
       \/ /\ MissingColumn(fieldnames) = ""
          /\ all_items' = Append(all_items, row.item)
          /\ set_data' = LoadedSetData(set_data, row)
          /\ saint_data' = LoadedSaintData(saint_data, row)
          /\ row_i' = row_i + 1
          /\ UNCHANGED <<pc, exitVars>>
    /\ UNCHANGED <<envVars, fsVars, optVars, drvVars, buildVars, histVars,
                   written>>

\* the reader is exhausted: load_csv_data returns and the driver goes on at
\* line 429
LoadReturn ==
    /\ pc = "load"
    /\ row_i > Len(catalog)
    /\ pc' = "splits"
    /\ split_i' = 1
    /\ manifests_generated' = 0
    /\ UNCHANGED <<saint_i, saint_count>>
    /\ UNCHANGED <<envVars, fsVars, optVars, exitVars, loadVars, buildVars,
                   histVars, written>>

(***************************************************************************)
(* Initial values of the program's variables before any call               *)
(***************************************************************************)
NoManifest == [id |-> << >>, type |-> "", items |-> << >>]

InitOptions ==
    /\ generate_splits = FALSE
    /\ generate_saints = FALSE
    /\ force = FALSE
    /\ sample_size = 0

InitDriver ==
    /\ split_i = 1
    /\ saint_i = 1
    /\ manifests_generated = 0
    /\ saint_count = 0
    /\ exit_status = 0
    /\ stderr = {}

InitLoader ==
    /\ row_i = 1
    /\ set_data = EmptySetData
    /\ saint_data = EmptySaintData
    /\ all_items = << >>

InitBuilder ==
    /\ bpc = "none"
    /\ manifest_id = << >>
    /\ image_ids = << >>
    /\ item_i = 1
    /\ manifest = NoManifest
    /\ canvas_index = 1
    /\ skipped = 0
    /\ output_path = << >>

InitOutput ==
    /\ out_dir_exists = FALSE
    /\ files = << >>
    /\ files0 = << >>
    /\ written = << >>
    /\ runs = 0

(***************************************************************************)
(* SpecLoad: load_csv_data called on a catalog file                        *)
(***************************************************************************)
LoadItems == {"a", "b"}

LoadSetValues == {"train", "test", "val", "dev"}

\* category cells of a row: no category column, column 7 (11H(JEROME)) set,
\* columns 1 and 7 present with only the first set
LoadFlags == {NoFlags, (7 :> "1"), (1 :> "1" @@ 7 :> "0")}

LoadRows(header) ==
    {Row(i, s, fl) : i \in (IF "item" \in header THEN LoadItems ELSE {""}),
                     s \in (IF "set" \in header THEN LoadSetValues ELSE {""}),
                     fl \in LoadFlags}

InitLoad ==
    /\ csv_exists = TRUE
    /\ fieldnames \in {{"item", "set"}, {"item"}, {"set"}}
    /\ catalog \in SeqsUpTo(LoadRows(fieldnames), MaxLoadRows)
    /\ images_dir_exists = TRUE
    /\ dir = << >>
    /\ pc = "load"
    /\ InitOptions /\ InitDriver /\ InitLoader /\ InitBuilder /\ InitOutput

NextLoad == LoadRow \/ LoadReturn

SpecLoad == InitLoad /\ [][NextLoad]_vars

(***************************************************************************)
(* create_multi_image_manifest                                             *)
(***************************************************************************)
\* variant: a skipped item also consumes a canvas index
LoopBody_IndexOnSkip(m, ci, sk, item_id, mid, d) ==
    LET r == find_image_file(item_id, d) IN
    IF ~r.found
    THEN [manifest |-> m, canvas_index |-> ci + 1, skipped |-> sk + 1]
    ELSE LET wh == get_image_dimensions(r.file, d)
             canvas == create_canvas(item_id, r.file, BASE_URL, wh[1], wh[2],
                                     ci, mid)
         IN [manifest |-> [m EXCEPT !.items = Append(@, canvas)],
             canvas_index |-> ci + 1,
             skipped |-> sk]

\* variant: an item without image file gets a placeholder canvas
LoopBody_Placeholder(m, ci, sk, item_id, mid, d) ==
    LET r == find_image_file(item_id, d)
        wh == IF r.found THEN get_image_dimensions(r.file, d)
              ELSE DEFAULT_DIMENSIONS
        canvas == create_canvas(item_id, r.file, BASE_URL, wh[1], wh[2],
                                ci, mid)
    IN [manifest |-> [m EXCEPT !.items = Append(@, canvas)],
        canvas_index |-> ci + 1,
        skipped |-> IF r.found THEN sk ELSE sk + 1]

\* the body of `for item_id in image_ids` (lines 169-196): the manifest, the
\* canvas index and the skip counter after one item
LoopBody(m, ci, sk, item_id, mid, d) ==
    LET r == find_image_file(item_id, d) IN
    IF ~r.found
    THEN [manifest |-> m, canvas_index |-> ci, skipped |-> sk + 1]
    ELSE LET wh == get_image_dimensions(r.file, d)
             canvas == create_canvas(item_id, r.file, BASE_URL, wh[1], wh[2],
                                     ci, mid)
         IN [manifest |-> [m EXCEPT !.items = Append(@, canvas)],
             canvas_index |-> ci + 1,
             skipped |-> sk]

\* the call: lines 151-166
BuildCall(mid, ids, path) ==
    /\ bpc' = "loop"
    /\ manifest_id' = mid
    /\ image_ids' = ids
    /\ output_path' = path
    /\ item_i' = 1
    /\ manifest' = NewManifest(mid, BASE_URL)
    /\ canvas_index' = 1
    /\ skipped' = 0

\* variant: the manifest is written inside the loop, after every item
BuildItem_WriteInLoop ==
    /\ bpc = "loop"
    /\ item_i <= Len(image_ids)
    /\ LET item_id == image_ids[item_i]
           r == find_image_file(item_id, dir)
           after == LoopBody(manifest, canvas_index, skipped, item_id,
                             manifest_id, dir)
       IN /\ manifest' = after.manifest
          /\ canvas_index' = after.canvas_index
          /\ skipped' = after.skipped
          /\ stderr' = IF r.found /\ ~dir[r.file].ok
                       THEN stderr \cup {"could not read dimensions"}
                       ELSE stderr
          /\ files' = (output_path :> after.manifest) @@ files
    /\ written' = Append(written, output_path)
    /\ item_i' = item_i + 1
    /\ UNCHANGED <<bpc, manifest_id, image_ids, output_path>>
    /\ UNCHANGED <<envVars, out_dir_exists, optVars, pc, drvVars, exit_status,
                   loadVars, histVars>>

\* one iteration of the loop over image_ids; an unreadable image makes
\* get_image_dimensions write a warning to stderr
BuildItem ==
    /\ bpc = "loop"
    /\ item_i <= Len(image_ids)
    /\ LET item_id == image_ids[item_i]
           r == find_image_file(item_id, dir)
           after == LoopBody(manifest, canvas_index, skipped, item_id,
                             manifest_id, dir)
       IN /\ manifest' = after.manifest
          /\ canvas_index' = after.canvas_index
          /\ skipped' = after.skipped
          /\ stderr' = IF r.found /\ ~dir[r.file].ok
                       THEN stderr \cup {"could not read dimensions"}
                       ELSE stderr
    /\ item_i' = item_i + 1
    /\ UNCHANGED <<bpc, manifest_id, image_ids, output_path>>
    /\ UNCHANGED <<envVars, fsVars, optVars, pc, drvVars, exit_status,
                   loadVars, histVars, written>>

\* lines 198-205: the manifest is written to output_path and returned
BuildWrite ==
    /\ bpc = "loop"
    /\ item_i > Len(image_ids)
    /\ files' = (output_path :> manifest) @@ files
    /\ written' = Append(written, output_path)
    /\ bpc' = "returned"
    /\ UNCHANGED <<manifest_id, image_ids, item_i, manifest, canvas_index,
                   skipped, output_path>>
    /\ UNCHANGED <<envVars, out_dir_exists, optVars, pc, drvVars, exitVars,
                   loadVars, histVars>>

(***************************************************************************)
(* generate_manifests                                                      *)
(***************************************************************************)
\* line 391: the files of the images directory with an image suffix
ImageFiles(d) == {f \in DOMAIN d : SuffixLower(f[2]) \in IMAGE_EXTENSIONS}

\* line 407: output_path.glob('*.json')
ManifestFiles(fs) == DOMAIN fs

\* variant: the run is never given up because of existing manifests
AlreadyGenerated_Never(exists, f, fs) == FALSE

\* variant: the force flag is not looked at
AlreadyGenerated_IgnoreForce(exists, f, fs) ==
    exists /\ ManifestFiles(fs) # {}

\* lines 405-408: the output directory exists, force is not set and the
\* directory holds at least one manifest file
AlreadyGenerated(exists, f, fs) ==
    exists /\ ~f /\ ManifestFiles(fs) # {}

\* line 501
SampleEnabled(n) == n # 0 /\ n > 0

\* variant: the slice drops the first item
Slice_FromSecond(items, n) == SubSeq(items, 2, Min(n + 1, Len(items)))

\* line 513: all_items[:sample_size] for a positive sample_size
Slice(items, n) == SubSeq(items, 1, Min(n, Len(items)))

\* variant: an empty bucket is built too
BucketSkipped_Never(ids) == FALSE

\* lines 444 and 473: `if not image_ids`
BucketSkipped(ids) == ids = << >>

\* the script is started with its options; lines 333-428 up to the call of
\* load_csv_data.  The four early returns leave the function normally, so
\* the process ends with status 0.
StartRun ==
    /\ pc \in {"idle", "exit"}
    /\ runs < MaxRuns
    /\ runs' = runs + 1
    /\ files0' = files
    /\ written' = << >>
    /\ exit_status' = 0
    /\ \E splits \in BOOLEAN, saints \in BOOLEAN, all \in BOOLEAN,
          f \in BOOLEAN, n \in 0..MaxSample :
          /\ generate_splits' = (splits \/ all)
          /\ generate_saints' = (saints \/ all)
          /\ force' = f
          /\ sample_size' = n
          /\ \/ /\ ~csv_exists
                /\ stderr' = {"CSV file not found"}
                /\ pc' = "exit"
                /\ UNCHANGED out_dir_exists
             \/ /\ csv_exists
                /\ ~images_dir_exists
                /\ stderr' = {"Images directory not found"}
                /\ pc' = "exit"
                /\ UNCHANGED out_dir_exists
             \/ /\ csv_exists
                /\ images_dir_exists
                /\ ImageFiles(dir) = {}
                /\ stderr' = {"No image files found"}
                /\ pc' = "exit"
                /\ UNCHANGED out_dir_exists
             \/ /\ csv_exists
                /\ images_dir_exists
                /\ ImageFiles(dir) # {}
                /\ AlreadyGenerated(out_dir_exists, f, files)
                /\ stderr' = {}
                /\ pc' = "exit"
                /\ UNCHANGED out_dir_exists
             \/ /\ csv_exists
                /\ images_dir_exists
                /\ ImageFiles(dir) # {}
                /\ ~AlreadyGenerated(out_dir_exists, f, files)
                /\ stderr' = {}
                /\ out_dir_exists' = TRUE
                /\ pc' = "load"
    /\ row_i' = 1
    /\ set_data' = EmptySetData
    /\ saint_data' = EmptySaintData
    /\ all_items' = << >>
    /\ bpc' = "none"
    /\ UNCHANGED <<manifest_id, image_ids, item_i, manifest, canvas_index,
                   skipped, output_path>>
    /\ UNCHANGED <<envVars, files, drvVars>>

\* lines 433-462: the top of the loop over set_data.items()
SplitsStep ==
    /\ pc = "splits"
    /\ \/ /\ ~generate_splits \/ split_i > Len(SET_NAMES)
          /\ pc' = "saints"
          /\ saint_i' = 1
          /\ saint_count' = 0
          /\ UNCHANGED <<split_i, stderr, buildVars>>
       \/ /\ generate_splits
          /\ split_i <= Len(SET_NAMES)
          /\ BucketSkipped(set_data[SET_NAMES[split_i]])
          /\ stderr' = stderr \cup {"Skipping (no images)"}
          /\ split_i' = split_i + 1
          /\ UNCHANGED <<pc, saint_i, saint_count, buildVars>>
       \/ /\ generate_splits
          /\ split_i <= Len(SET_NAMES)
          /\ ~BucketSkipped(set_data[SET_NAMES[split_i]])
          /\ LET set_name == SET_NAMES[split_i] IN
             BuildCall(Chars[set_name], set_data[set_name],
                       OutputFile(Chars[set_name]))
          /\ pc' = "split_build"
          /\ UNCHANGED <<split_i, saint_i, saint_count, stderr>>
    /\ UNCHANGED <<envVars, fsVars, optVars, manifests_generated,
                   exit_status, loadVars, histVars, written>>

\* lines 461-462, after create_multi_image_manifest has returned
SplitDone ==
    /\ pc = "split_build"
    /\ bpc = "returned"
    /\ manifests_generated' = manifests_generated + 1
    /\ split_i' = split_i + 1
    /\ pc' = "splits"
    /\ bpc' = "none"
    /\ UNCHANGED <<manifest_id, image_ids, item_i, manifest, canvas_index,
                   skipped, output_path>>
    /\ UNCHANGED <<envVars, fsVars, optVars, saint_i, saint_count, exitVars,
                   loadVars, histVars, written>>

\* lines 464-498: the top of the loop over SAINT_CATEGORIES
SaintsStep ==
    /\ pc = "saints"
    /\ \/ /\ ~generate_saints
          /\ pc' = "sample"
          /\ UNCHANGED <<saint_i, manifests_generated, buildVars>>
       \/ /\ generate_saints
          /\ saint_i > Len(SAINT_CATEGORIES)
          /\ manifests_generated' = manifests_generated + saint_count
          /\ pc' = "sample"
          /\ UNCHANGED <<saint_i, buildVars>>
       \/ /\ generate_saints
          /\ saint_i <= Len(SAINT_CATEGORIES)
          /\ BucketSkipped(saint_data[saint_i])
          /\ saint_i' = saint_i + 1
          /\ UNCHANGED <<pc, manifests_generated, buildVars>>
       \/ /\ generate_saints
          /\ saint_i <= Len(SAINT_CATEGORIES)
          /\ ~BucketSkipped(saint_data[saint_i])
          /\ LET saint == SAINT_CATEGORIES[saint_i] IN
             BuildCall(sanitize_filename(saint), saint_data[saint_i],
                       OutputFile(sanitize_filename(saint)))
          /\ pc' = "saint_build"
          /\ UNCHANGED <<saint_i, manifests_generated>>
    /\ UNCHANGED <<envVars, fsVars, optVars, split_i, saint_count, exitVars,
                   loadVars, histVars, written>>

\* lines 495-496, after create_multi_image_manifest has returned
SaintDone ==
    /\ pc = "saint_build"
    /\ bpc = "returned"
    /\ saint_count' = saint_count + 1
    /\ saint_i' = saint_i + 1
    /\ pc' = "saints"
    /\ bpc' = "none"
    /\ UNCHANGED <<manifest_id, image_ids, item_i, manifest, canvas_index,
                   skipped, output_path>>
    /\ UNCHANGED <<envVars, fsVars, optVars, split_i, manifests_generated,
                   exitVars, loadVars, histVars, written>>

\* lines 500-524; without a sample the function goes on to its summary and
\* returns
SampleStep ==
    /\ pc = "sample"
    /\ IF SampleEnabled(sample_size)
          /\ ~(OutputFile(Chars["sample"]) \in DOMAIN files /\ ~force)
       THEN /\ BuildCall(Chars["sample"], Slice(all_items, sample_size),
                         OutputFile(Chars["sample"]))
            /\ pc' = "sample_build"
       ELSE /\ pc' = "exit"
            /\ UNCHANGED buildVars
    /\ UNCHANGED <<envVars, fsVars, optVars, drvVars, exitVars, loadVars,
                   histVars, written>>

\* lines 526-545, after create_multi_image_manifest has returned
SampleDone ==
    /\ pc = "sample_build"
    /\ bpc = "returned"
    /\ manifests_generated' = manifests_generated + 1
    /\ pc' = "exit"
    /\ bpc' = "none"
    /\ UNCHANGED <<manifest_id, image_ids, item_i, manifest, canvas_index,
                   skipped, output_path>>
    /\ UNCHANGED <<envVars, fsVars, optVars, split_i, saint_i, saint_count,
                   exitVars, loadVars, histVars, written>>

(***************************************************************************)
(* Spec: runs of the script on one catalog, images directory and output    *)
(* directory                                                               *)
(***************************************************************************)
\* the rows the catalogs of the runs are made of
BaseCatalog == <<
    Row("a", "train", (1 :> "1")),
    Row("b", "test", (7 :> "1")),
    Row("c", "dev", NoFlags),
    Row("d", "val", (1 :> "0" @@ 7 :> "1")) >>

\* the rows of base at the positions S, in order
SubCatalog(base, S) ==
    LET F[k \in 0..Len(base)] ==
            IF k = 0 THEN << >>
            ELSE IF k \in S THEN Append(F[k - 1], base[k]) ELSE F[k - 1]
    IN F[Len(base)]

\* the catalogs of the runs: the base catalog with any of its rows left out
RunCatalogs ==
    {SubCatalog(BaseCatalog, S) : S \in SUBSET (1..Len(BaseCatalog))}

\* images directories: every item has a readable image; some items have
\* none, one image is not decodable and one file is no image; no image
FullDir ==
    (<<"a", ".jpg">> :> Readable(640, 480)) @@
    (<<"b", ".png">> :> Readable(800, 600)) @@
    (<<"c", ".JPG">> :> Readable(640, 480)) @@
    (<<"d", ".tif">> :> Readable(300, 200))

PartialDir ==
    (<<"a", ".PNG">> :> Readable(640, 480)) @@
    (<<"a", ".jpeg">> :> Readable(800, 600)) @@
    (<<"b", ".jpg">> :> Corrupt) @@
    (<<"c", ".txt">> :> Corrupt)

NoImageDir == (<<"c", ".txt">> :> Corrupt)

RunDirs == {FullDir, PartialDir, NoImageDir}

Init ==
    /\ csv_exists \in BOOLEAN
    /\ fieldnames \in (IF csv_exists THEN {{"item", "set"}, {"item"}} ELSE {{}})
    /\ catalog \in (IF csv_exists THEN RunCatalogs ELSE {<< >>})
    /\ images_dir_exists \in BOOLEAN
    /\ dir \in (IF images_dir_exists THEN RunDirs ELSE {<< >>})
    /\ pc = "idle"
    /\ InitOptions /\ InitDriver /\ InitLoader /\ InitBuilder /\ InitOutput

Next ==
    \/ StartRun
    \/ LoadRow
    \/ LoadReturn
    \/ SplitsStep
    \/ SplitDone
    \/ SaintsStep
    \/ SaintDone
    \/ SampleStep
    \/ SampleDone
    \/ BuildItem
    \/ BuildWrite

Spec == Init /\ [][Next]_vars

(***************************************************************************)
(* SpecBuild: create_multi_image_manifest called on a list of item ids     *)
(***************************************************************************)
BuildItems == {"a", "b", "c"}

BuildDirs ==
    LET names == {<<"a", ".jpeg">>, <<"a", ".PNG">>, <<"b", ".tiff">>}
        contents == {Readable(640, 480), Corrupt}
    IN UNION {[D -> contents] : D \in SUBSET names}

\* a manifest left at the output path by an earlier build
OldManifest(mid) ==
    [NewManifest(mid, BASE_URL) EXCEPT
        !.items = <<create_canvas("z", <<"z", ".jpg">>, BASE_URL, 10, 10, 1,
                                  mid)>>]

InitBuild ==
    /\ csv_exists = TRUE
    /\ fieldnames = {"item", "set"}
    /\ catalog = << >>
    /\ images_dir_exists = TRUE
    /\ dir \in BuildDirs
    /\ pc = "api"
    /\ InitOptions /\ InitDriver /\ InitLoader
    /\ bpc = "loop"
    /\ manifest_id \in {Chars["train"], sanitize_filename(SAINT_CATEGORIES[7])}
    /\ image_ids \in SeqsUpTo(BuildItems, MaxIds)
    /\ output_path = OutputFile(manifest_id)
    /\ item_i = 1
    /\ manifest = NewManifest(manifest_id, BASE_URL)
    /\ canvas_index = 1
    /\ skipped = 0
    /\ out_dir_exists = TRUE
    /\ files \in {<< >>, (output_path :> OldManifest(manifest_id))}
    /\ files0 = files
    /\ written = << >>
    /\ runs = 0

NextBuild == BuildItem \/ BuildWrite

SpecBuild == InitBuild /\ [][NextBuild]_vars

(***************************************************************************)
(* Properties                                                              *)
(***************************************************************************)
ItemsOf(rows) == [i \in 1..Len(rows) |-> rows[i].item]

\* the rows the loader has gone through
Processed == SubSeq(catalog, 1, row_i - 1)

RowsWithSet(rows, n) == SelectSeq(rows, LAMBDA r : r.set = n)

RowsWithFlag(rows, k) == SelectSeq(rows, LAMBDA r : RowGet(r, k, "0") = "1")

SplitBucketsOf(it) == {n \in Range(SET_NAMES) : it \in Range(set_data[n])}

\* no item id occurs on two rows with different split values
NoConflictingRows ==
    \A i, j \in DOMAIN catalog :
        catalog[i].item = catalog[j].item => catalog[i].set = catalog[j].set

LoadSucceeded == pc = "splits"

LoadFailed == pc = "exit" /\ exit_status = 1 /\ "KeyError" \in stderr

\* C8 as stated: whatever the catalog, every item id is in at most one of
\* the three split buckets
C8_AtMostOneBucketAlways ==
    \A it \in Items : Cardinality(SplitBucketsOf(it)) <= 1

\* C8 amended: at every point of the load, each split bucket holds exactly
\* the items of the processed rows whose set cell equals the bucket's name,
\* in row order (so each row feeds at most one bucket, chosen by its set cell
\* alone), and when no item id occurs on two rows with different split
\* values every item id is in at most one bucket
C8_OneBucketPerRow ==
    /\ \A n \in Range(SET_NAMES) :
           set_data[n] = ItemsOf(RowsWithSet(Processed, n))
    /\ NoConflictingRows => \A it \in Items : Cardinality(SplitBucketsOf(it)) <= 1

\* C8 witness: a loaded catalog where one item id is in two rows of the same
\* split and another row went to another bucket
C8_Witness ==
    /\ LoadSucceeded
    /\ NoConflictingRows
    /\ \E i, j \in DOMAIN catalog :
           /\ i # j
           /\ catalog[i].item = catalog[j].item
           /\ catalog[i].set = "train"
    /\ set_data["test"] # << >>

\* C9: when load_csv_data returns, the full item list has one entry per row,
\* in row order, and a row with an unknown split value is in the full list
\* and in no split bucket (the buckets together hold exactly the rows with a
\* known split value)
C9_FullItemList ==
    LoadSucceeded =>
        /\ Len(all_items) = Len(catalog)
        /\ \A i \in DOMAIN catalog : all_items[i] = catalog[i].item
        /\ Len(set_data["train"]) + Len(set_data["test"]) + Len(set_data["val"])
             = Cardinality({i \in DOMAIN catalog :
                               catalog[i].set \in Range(SET_NAMES)})

\* C9 witness: a loaded catalog of several rows with an unknown split value
\* on one of them and a known one on another
C9_Witness ==
    /\ LoadSucceeded
    /\ Len(catalog) >= 2
    /\ \E i, j \in DOMAIN catalog :
           /\ catalog[i].set = "dev"
           /\ catalog[j].set = "val"
    /\ Len(all_items) = Len(catalog)

\* C10 as stated: a catalog with an item column loads without a fatal error,
\* with or without a set column
C10_SetOptional ==
    "item" \in fieldnames => ~LoadFailed

\* C10 amended: the item column and the set column are both mandatory: the
\* load of a catalog with at least one row ends with an uncaught KeyError
\* exactly when its header lacks item or set; otherwise it succeeds and each
\* row's item is in the full list and in the category buckets its flags
\* select
C10_SetMandatory ==
    /\ LoadFailed =>
           /\ Len(catalog) >= 1
           /\ ~({"item", "set"} \subseteq fieldnames)
           /\ all_items = << >>
    /\ LoadSucceeded =>
           /\ Len(catalog) = 0 \/ {"item", "set"} \subseteq fieldnames
           /\ all_items = ItemsOf(catalog)
           /\ \A k \in SaintIdx :
                  saint_data[k] = ItemsOf(RowsWithFlag(catalog, k))

\* C10 witness: the load of a catalog with an item column, no set column and
\* a row has failed
C10_Witness ==
    /\ LoadFailed
    /\ fieldnames = {"item"}
    /\ Len(catalog) >= 1

(***************************************************************************)
(* Properties of create_multi_image_manifest                               *)
(***************************************************************************)
Resolves(item_id) == find_image_file(item_id, dir).found

\* the item ids the loop has gone through
Handled == SubSeq(image_ids, 1, item_i - 1)

\* the index of a canvas: the trailing number of its id
IndexOf(canvas) == canvas.id[Len(canvas.id)]

LabelsOf(m) == [j \in 1..Len(m.items) |-> m.items[j].label]

InBuild == bpc \in {"loop", "returned"}

\* C1: at every point of the loop and after it, the canvases of the manifest
\* have the indices 1, 2, ..., k in list order, k being the number of items
\* gone through minus the number of skipped ones, and the written manifest
\* has requested - skipped canvases
C1_ContiguousIndices ==
    InBuild =>
        /\ Len(manifest.items) = (item_i - 1) - skipped
        /\ \A j \in 1..Len(manifest.items) : IndexOf(manifest.items[j]) = j
        /\ canvas_index = Len(manifest.items) + 1
        /\ bpc = "returned" =>
               /\ Len(files[output_path].items) = Len(image_ids) - skipped
               /\ \A j \in 1..Len(files[output_path].items) :
                      IndexOf(files[output_path].items[j]) = j

\* C1 witness: a finished build in which an item without image stood between
\* two items with one
C1_Witness ==
    /\ bpc = "returned"
    /\ \E i, j, k \in 1..Len(image_ids) :
           /\ i < j /\ j < k
           /\ Resolves(image_ids[i])
           /\ ~Resolves(image_ids[j])
           /\ Resolves(image_ids[k])
    /\ Len(manifest.items) >= 2

\* C4: at every point of the build the skip counter is the number of items
\* gone through that have no image file, the canvases are those of the items
\* gone through that have one, in the order given, no error is raised, and
\* the write happens after the whole list, missing images or not
C4_SkipMissing ==
    InBuild =>
        /\ skipped = Cardinality({j \in 1..(item_i - 1) : ~Resolves(image_ids[j])})
        /\ LabelsOf(manifest) = SelectSeq(Handled, Resolves)
        /\ exit_status = 0
        /\ bpc = "returned" =>
               /\ item_i = Len(image_ids) + 1
               /\ LabelsOf(files[output_path]) = SelectSeq(image_ids, Resolves)

\* C4 witness: a finished build whose first item had no image file and a
\* later one had
C4_Witness ==
    /\ bpc = "returned"
    /\ Len(image_ids) >= 2
    /\ ~Resolves(image_ids[1])
    /\ Resolves(image_ids[Len(image_ids)])
    /\ skipped >= 1
    /\ manifest.items # << >>

(***************************************************************************)
(* Properties of generate_manifests                                        *)
(***************************************************************************)
\* a run has been started and has ended
RunEnded == pc = "exit" /\ runs >= 1

\* none of the fatal conditions holds: the files are there and the catalog
\* parses
Runnable ==
    /\ csv_exists
    /\ images_dir_exists
    /\ ImageFiles(dir) # {}
    /\ (catalog = << >> \/ {"item", "set"} \subseteq fieldnames)

SplitBucket(n) == ItemsOf(RowsWithSet(catalog, n))

SaintBucket(k) == ItemsOf(RowsWithFlag(catalog, k))

SplitFile(n) == OutputFile(Chars[n])

\* the file names of the category manifests
SaintFiles ==
    [k \in SaintIdx |-> OutputFile(sanitize_filename(SAINT_CATEGORIES[k]))]

SaintFile(k) == SaintFiles[k]

SampleFile == OutputFile(Chars["sample"])

\* the manifests the options of the run ask for: those of the non-empty
\* buckets of the enabled modes and the sample
Targets ==
    (IF generate_splits
     THEN {SplitFile(n) : n \in {m \in Range(SET_NAMES) : SplitBucket(m) # << >>}}
     ELSE {})
    \cup
    (IF generate_saints
     THEN {SaintFile(k) : k \in {j \in SaintIdx : SaintBucket(j) # << >>}}
     ELSE {})
    \cup
    (IF SampleEnabled(sample_size) THEN {SampleFile} ELSE {})

WrittenFiles == Range(written)

\* C2 as stated: in a run without force, a manifest whose file exists is
\* skipped and every other requested manifest whose file is missing is built
C2_PerFileSkip ==
    (RunEnded /\ Runnable /\ ~force) =>
        \A t \in Targets :
            /\ t \in DOMAIN files0 => t \notin WrittenFiles
            /\ t \notin DOMAIN files0 => t \in WrittenFiles

\* C2 amended: the check is one check of the whole output directory: a run
\* without force that finds any manifest file in the output directory builds
\* nothing, and a run that finds none builds every requested manifest
C2_DirectoryCheck ==
    (RunEnded /\ Runnable /\ ~force) =>
        IF DOMAIN files0 # {}
        THEN written = << >> /\ files = files0
        ELSE WrittenFiles = Targets

\* C2 witness: a run without force has ended that found a manifest file and
\* was asked for a manifest whose file is missing
C2_Witness ==
    /\ RunEnded /\ Runnable /\ ~force
    /\ DOMAIN files0 # {}
    /\ Targets \ DOMAIN files0 # {}
    /\ written = << >>

\* C3: a manifest file that exists when a run starts is, without force, never
\* written by the run and keeps its content; with force it is written again
\* by a run that asks for it, be it a split, a category or the sample
C3_RerunForce ==
    /\ (runs >= 1 /\ ~force) =>
           \A t \in DOMAIN files0 :
               /\ t \notin WrittenFiles
               /\ t \in DOMAIN files
               /\ files[t] = files0[t]
    /\ (RunEnded /\ Runnable /\ force) =>
           \A t \in DOMAIN files0 \cap Targets : t \in WrittenFiles

\* C3 witness: a run with force has ended that found and wrote again a split
\* manifest, a category manifest and the sample
C3_Witness ==
    /\ RunEnded /\ Runnable /\ force
    /\ \E n \in Range(SET_NAMES), k \in SaintIdx :
           {SplitFile(n), SaintFile(k), SampleFile}
               \subseteq (DOMAIN files0 \cap WrittenFiles)

\* the number of times a run has written the file t
TimesWritten(t) == Cardinality({j \in DOMAIN written : written[j] = t})

\* C5: a run that proceeds with a positive sample size writes sample.json
\* once; the manifest is named sample and its canvases are those of the
\* first min(N, rows) items of the catalog that have an image, in catalog
\* order; with every image present they are exactly the first min(N, rows)
\* items
C5_SamplePrefix ==
    /\ (RunEnded /\ Runnable /\ SampleEnabled(sample_size)
          /\ (force \/ DOMAIN files0 = {})) => SampleFile \in WrittenFiles
    /\ (RunEnded /\ SampleFile \in WrittenFiles) =>
           LET first == SubSeq(ItemsOf(catalog), 1,
                               Min(sample_size, Len(catalog)))
           IN /\ TimesWritten(SampleFile) = 1
              /\ files[SampleFile].id
                   = <<BASE_URL, "collections", Chars["sample"] \o JSON_SUFFIX>>
              /\ LabelsOf(files[SampleFile]) = SelectSeq(first, Resolves)
              /\ (\A j \in 1..Len(first) : Resolves(first[j])) =>
                     LabelsOf(files[SampleFile]) = first

\* C5 witness: the run with sample size 3 on the catalog a, b, c, d, every
\* image present, has written the sample with the canvases a, b, c
C5_Witness ==
    /\ RunEnded
    /\ ItemsOf(catalog) = <<"a", "b", "c", "d">>
    /\ sample_size = 3
    /\ SampleFile \in WrittenFiles
    /\ LabelsOf(files[SampleFile]) = <<"a", "b", "c">>

\* the run got past the check of the output directory
Proceeded == Runnable /\ (force \/ DOMAIN files0 = {})

\* C6: in a run that proceeds, split mode writes the file of a split exactly
\* when its bucket is non-empty, category mode writes the file of a category
\* exactly when its bucket is non-empty, the run ends without error and the
\* other requested manifests are all built
C6_NonEmptyBuckets ==
    (RunEnded /\ Proceeded) =>
        /\ generate_splits =>
               \A n \in Range(SET_NAMES) :
                   SplitFile(n) \in WrittenFiles <=> SplitBucket(n) # << >>
        /\ generate_saints =>
               \A k \in SaintIdx :
                   SaintFile(k) \in WrittenFiles <=> SaintBucket(k) # << >>
        /\ exit_status = 0
        /\ Targets \subseteq WrittenFiles

\* C6 witness: a run with both modes has ended in which the train bucket and
\* the first category bucket were empty and a later split, a later category
\* and the sample were written
C6_Witness ==
    /\ RunEnded /\ Proceeded
    /\ generate_splits /\ generate_saints
    /\ SplitBucket("train") = << >>
    /\ SaintBucket(1) = << >>
    /\ SplitFile("train") \notin DOMAIN files
    /\ {SplitFile("val"), SaintFile(7), SampleFile} \subseteq WrittenFiles

\* C7 as stated: a run that finds the catalog file or the images directory
\* missing ends with a non-zero exit status and a message on stderr, and
\* writes no manifest
C7_FatalNonZeroExit ==
    (RunEnded /\ (~csv_exists \/ ~images_dir_exists)) =>
        /\ exit_status # 0
        /\ stderr # {}
        /\ written = << >>

(***************************************************************************)
(* Properties of the serialization                                         *)
(***************************************************************************)
\* C11: while the loop of a build runs, nothing has been written and the
\* output directory is as the build found it; the output file is written
\* once, when every item id has been gone through, and then holds the whole
\* manifest: a canvas for every item with an image, none missing
C11_WriteOnceAtEnd ==
    /\ bpc = "loop" => written = << >> /\ files = files0
    /\ bpc = "returned" =>
           /\ written = <<output_path>>
           /\ item_i = Len(image_ids) + 1
           /\ files[output_path] = manifest
           /\ Len(files[output_path].items)
                = Len(SelectSeq(image_ids, Resolves))
           /\ \A t \in DOMAIN files0 \ {output_path} :
                  t \in DOMAIN files /\ files[t] = files0[t]
           /\ DOMAIN files = DOMAIN files0 \cup {output_path}

\* C11 witness: a finished build of several items, some with and some
\* without image, that replaced the manifest an earlier build had left
C11_Witness ==
    /\ bpc = "returned"
    /\ Len(image_ids) >= 2
    /\ skipped >= 1
    /\ Len(manifest.items) >= 1
    /\ output_path \in DOMAIN files0
    /\ files[output_path] # files0[output_path]

(***************************************************************************)
(* Properties of sanitize_filename                                         *)
(***************************************************************************)
\* the labels sanitize_filename is applied to: the category labels and every
\* string of up to MaxLabel characters over the characters it rewrites and a
\* letter
LabelChars == {"(", ")", " ", "A"}

SanitizedLabels == Range(SAINT_CATEGORIES) \cup SeqsUpTo(LabelChars, MaxLabel)

Rewritten == {"(", ")", " "}

JEROME == 7

\* the result has none of the three characters: it is the label without its
\* closing parentheses, with an underscore for each opening parenthesis and
\* each space and every other character kept
SanitizedWell(label) ==
    LET result == sanitize_filename(label)
        kept == SelectSeq(label, LAMBDA c : c # ")")
    IN /\ Range(result) \cap Rewritten = {}
       /\ Len(result) = Len(kept)
       /\ \A i \in 1..Len(kept) :
              result[i] = IF kept[i] \in {"(", " "} THEN "_" ELSE kept[i]

SanitizeCorrect ==
    /\ \A label \in SanitizedLabels : SanitizedWell(label)
    /\ sanitize_filename(SAINT_CATEGORIES[JEROME])
         = <<"1","1","H","_","J","E","R","O","M","E">>

\* C12: sanitizing leaves no parenthesis and no space, an opening parenthesis
\* and each space becoming an underscore; 11H(JEROME) becomes 11H_JEROME; and
\* while a category manifest is built, and in the file written for it, the
\* manifest id and the stem of the output file name are the sanitized label
C12_SanitizedNames ==
    /\ SanitizeCorrect
    /\ pc = "saint_build" =>
           /\ Range(manifest_id) \cap Rewritten = {}
           /\ SanitizedWell(SAINT_CATEGORIES[saint_i])
           /\ manifest_id = sanitize_filename(SAINT_CATEGORIES[saint_i])
           /\ output_path = manifest_id \o JSON_SUFFIX
           /\ manifest.id = <<BASE_URL, "collections", output_path>>
           /\ \A j \in 1..Len(manifest.items) :
                  manifest.items[j].id[3] = manifest_id
           /\ bpc = "returned" =>
                  /\ output_path \in DOMAIN files
                  /\ files[output_path] = manifest
           /\ saint_i = JEROME =>
                  manifest_id = <<"1","1","H","_","J","E","R","O","M","E">>

\* C12 witness: the manifest of 11H(JEROME) has been written to
\* 11H_JEROME.json with the manifest id 11H_JEROME
C12_Witness ==
    /\ pc = "saint_build"
    /\ bpc = "returned"
    /\ saint_i = JEROME
    /\ output_path
         = <<"1","1","H","_","J","E","R","O","M","E",".","j","s","o","n">>
    /\ Len(files[output_path].items) >= 1
    /\ files[output_path].items[1].id[3]
         = <<"1","1","H","_","J","E","R","O","M","E">>

(***************************************************************************)
(* Properties of create_canvas                                             *)
(***************************************************************************)
\* {base_url}/collections/{manifest_id}/
CollectionsPrefix == <<BASE_URL, "collections", manifest_id>>

HasPrefix(id, prefix) ==
    /\ Len(id) >= Len(prefix)
    /\ SubSeq(id, 1, Len(prefix)) = prefix

\* C13 as stated: the Canvas id, the AnnotationPage id, the Annotation id and
\* the Image-service id of every canvas of the manifest start with
\* {base_url}/collections/{manifest_id}/
C13_FourIdsSharePrefix ==
    InBuild =>
        \A j \in 1..Len(manifest.items) :
            LET canvas == manifest.items[j] IN
            /\ HasPrefix(canvas.id, CollectionsPrefix)
            /\ HasPrefix(canvas.page, CollectionsPrefix)
            /\ HasPrefix(canvas.annotation, CollectionsPrefix)
            /\ HasPrefix(canvas.body.service.id, CollectionsPrefix)

\* C13 amended: the Canvas id, the AnnotationPage id and the Annotation id
\* (and the annotation's target) are the prefix followed by canvas, page or
\* annotation and the canvas index, so the manifest id and the index are
\* read off each of them; the Image-service id is
\* {base_url}/iiif/3/{image file name}, without the prefix, the manifest id
\* or the index
C13_ThreeIdsSharePrefix ==
    InBuild =>
        \A j \in 1..Len(manifest.items) :
            LET canvas == manifest.items[j]
                image == find_image_file(canvas.label, dir).file
            IN /\ canvas.id = CollectionsPrefix \o <<"canvas", j>>
               /\ canvas.page = CollectionsPrefix \o <<"page", j>>
               /\ canvas.annotation = CollectionsPrefix \o <<"annotation", j>>
               /\ canvas.target = canvas.id
               /\ canvas.body.service.id = <<BASE_URL, "iiif", "3", image>>
               /\ ~HasPrefix(canvas.body.service.id, CollectionsPrefix)
               /\ canvas.body.id = canvas.body.service.id
                                     \o <<"full", "max", "0", "default.jpg">>

\* C13 witness: a finished build with two canvases
C13_Witness ==
    /\ bpc = "returned"
    /\ Len(manifest.items) >= 2
    /\ manifest.items[2].page = CollectionsPrefix \o <<"page", 2>>

(***************************************************************************)
(* Properties of the image resolver                                        *)
(***************************************************************************)
\* the positions in EXTENSIONS of the extensions with which the item has a
\* file in the images directory
ExistingExts(item_id) ==
    {k \in 1..Len(EXTENSIONS) : <<item_id, EXTENSIONS[k]>> \in DOMAIN dir}

\* the image file name in the Image-service id of a canvas
ImageOf(canvas) == canvas.body.service.id[4]

\* a directory that holds the item's file with exactly the extensions at
\* the positions K
DirWith(item_id, K) ==
    [f \in {<<item_id, EXTENSIONS[k]>> : k \in K} |-> Readable(640, 480)]

\* for every set of extensions the file of an item exists with, the file
\* with the first of them in probe order is returned, and nothing for the
\* empty set
ProbeOrderCorrect ==
    \A K \in SUBSET (1..Len(EXTENSIONS)) :
        LET r == find_image_file("a", DirWith("a", K)) IN
        /\ r.found <=> K # {}
        /\ \A k \in K :
               (\A other \in K : k <= other) => r.file = <<"a", EXTENSIONS[k]>>

\* C14: the extensions are probed in the order .jpg, .jpeg, .png, .tif,
\* .tiff, .JPG, .JPEG, .PNG, .TIF, .TIFF; find_image_file finds nothing
\* exactly when the item has a file with none of them, and otherwise returns
\* the file with the first of them that exists; every canvas of the build
\* uses that file, so two calls for the same item agree
C14_FirstMatch ==
    /\ EXTENSIONS = <<".jpg", ".jpeg", ".png", ".tif", ".tiff",
                      ".JPG", ".JPEG", ".PNG", ".TIF", ".TIFF">>
    /\ ProbeOrderCorrect
    /\ \A it \in BuildItems :
           LET r == find_image_file(it, dir) IN
           /\ r.found <=> ExistingExts(it) # {}
           /\ r.found =>
                  \E k \in ExistingExts(it) :
                      /\ r.file = <<it, EXTENSIONS[k]>>
                      /\ \A other \in ExistingExts(it) : k <= other
    /\ InBuild =>
           \A j \in 1..Len(manifest.items) :
               LET canvas == manifest.items[j] IN
               \E k \in ExistingExts(canvas.label) :
                   /\ ImageOf(canvas) = <<canvas.label, EXTENSIONS[k]>>
                   /\ \A other \in ExistingExts(canvas.label) : k <= other

\* C14 witness: a finished build that resolved twice an item with two files,
\* a.jpeg and a.PNG, to a.jpeg, and found no file for another item
C14_Witness ==
    /\ bpc = "returned"
    /\ {<<"a", ".jpeg">>, <<"a", ".PNG">>} \subseteq DOMAIN dir
    /\ skipped >= 1
    /\ Len(manifest.items) = 2
    /\ \A j \in 1..2 : ImageOf(manifest.items[j]) = <<"a", ".jpeg">>

\* the item has an image file and the file cannot be decoded
Unreadable(item_id) ==
    /\ Resolves(item_id)
    /\ ~dir[find_image_file(item_id, dir).file].ok

\* C15: at every point of a build, an item whose image file cannot be
\* decoded has a canvas of width 1000 and height 1000 at its place in the
\* sequence of indices, a readable one has a canvas of the size of its file;
\* the skip counter counts only the items without file, a warning is written
\* for an unreadable file, no error is raised and the build goes through the
\* whole list
C15_FallbackDimensions ==
    InBuild =>
        /\ \A j \in 1..Len(manifest.items) :
               LET canvas == manifest.items[j] IN
               /\ IndexOf(canvas) = j
               /\ ImageOf(canvas) \in DOMAIN dir
               /\ <<canvas.width, canvas.height>>
                    = IF Unreadable(canvas.label)
                      THEN <<1000, 1000>>
                      ELSE dir[ImageOf(canvas)].size
               /\ canvas.body.width = canvas.width
               /\ canvas.body.height = canvas.height
        /\ LabelsOf(manifest) = SelectSeq(Handled, Resolves)
        /\ skipped = Cardinality({j \in 1..(item_i - 1) : ~Resolves(image_ids[j])})
        /\ ("could not read dimensions" \in stderr)
             <=> (\E j \in 1..(item_i - 1) : Unreadable(image_ids[j]))
        /\ exit_status = 0
        /\ bpc = "returned" => item_i = Len(image_ids) + 1

\* C15 witness: a finished build whose first item had an unreadable image
\* and got canvas 1 with 1000 x 1000, followed by the canvas of a readable
\* image, with nothing skipped
C15_Witness ==
    /\ bpc = "returned"
    /\ Len(image_ids) >= 2
    /\ Unreadable(image_ids[1])
    /\ skipped = 0
    /\ Len(manifest.items) = Len(image_ids)
    /\ manifest.items[1].width = 1000
    /\ manifest.items[1].height = 1000
    /\ ~Unreadable(image_ids[2])
    /\ IndexOf(manifest.items[2]) = 2

(***************************************************************************)
(* Properties of the output file names                                     *)
(***************************************************************************)
\* the sanitized names of the 17 category labels are pairwise distinct and
\* none is train, test, val or sample
SanitizedNamesDistinct ==
    /\ Len(SAINT_CATEGORIES) = 17
    /\ \A j, k \in SaintIdx :
           j # k => sanitize_filename(SAINT_CATEGORIES[j])
                      # sanitize_filename(SAINT_CATEGORIES[k])
    /\ \A k \in SaintIdx :
           sanitize_filename(SAINT_CATEGORIES[k])
               \notin {Chars["train"], Chars["test"], Chars["val"],
                       Chars["sample"]}

\* C16: the names of the manifests are pairwise distinct, and at every point
\* of a run no file has been written twice by the run
C16_NoFileWrittenTwice ==
    /\ SanitizedNamesDistinct
    /\ \A i, j \in DOMAIN written : i # j => written[i] # written[j]
    /\ \A t \in WrittenFiles : TimesWritten(t) = 1

\* C16 witness: a run with force on a directory with manifests has written
\* the three splits, two categories and the sample, six different files
C16_Witness ==
    /\ RunEnded
    /\ force
    /\ DOMAIN files0 # {}
    /\ Len(written) = 6
    /\ Cardinality(WrittenFiles) = 6
    /\ {SplitFile("train"), SplitFile("test"), SplitFile("val"),
        SaintFile(1), SaintFile(JEROME), SampleFile} = WrittenFiles

=============================================================================
